---- MODULE Spec2Model ----
(***************************************************************************)
(* Model of the streaming voice-activity segmenter of omi-recorder:        *)
(* AutoRecorder in src/src/omi_continuous_recorder.py, and of the packet   *)
(* handlers of the two manual recorders, EnhancedRecorder in               *)
(* src/src/omi_recorder_enhanced.py and the script src/src/omi_recorder.py,*)
(* of the configuration loader src/src/config.py, and of the transcription *)
(* of a recordings directory by src/src/transcribe.py and                  *)
(* src/src/batch_transcribe.py.                                            *)
(*                                                                         *)
(* Time is counted in whole seconds of the event loop's monotonic clock,   *)
(* PCM in bytes (two bytes per 16-bit sample).  A decoded frame is the     *)
(* record [id, len]: id is its position in the stream of successfully      *)
(* decoded frames (it stands for the frame's content), len its byte count. *)
(***************************************************************************)
EXTENDS Integers, Sequences, FiniteSets, TLC

\* ---------------------------------------------------------------- constants
SAMPLE_RATE == 16000
SILENCE_THRESHOLD == 500
SILENCE_DURATION == 3
MIN_RECORDING_DURATION == 1
PRE_BUFFER_MAXLEN == 10
MAX_FRAME_SAMPLES == 960
WAV_HEADER_BYTES == 44
HEADER_BYTES == 3          \* audio_data = data_bytes[3:]

\* ------------------------------------------------------------------- bounds
MaxFrames == 25        \* decoded non-empty frames per run
MaxDrops == 1          \* packets that yield no frame (too short, undecodable)
MaxTime == 4           \* last clock reading
MaxFramesLong == 34    \* decoded frames per run in the two-session runs
MaxNotifications == 3  \* packets a manual recorder is sent per recording
MaxRecordings == 2     \* recordings the interactive recorder saves per run
MaxScheduled == 2      \* command handlers waiting on the event loop at once

\* samples per decoded frame: the decoder's full 960-sample buffer (60 ms) or a
\* 40 ms codec frame.  The device encodes one stream with one frame duration.
FrameSizes == {MAX_FRAME_SAMPLES, (40 * SAMPLE_RATE) \div 1000}

Levels == {SILENCE_THRESHOLD, SILENCE_THRESHOLD + 1}

\* readings of datetime.now(), to the second: the wall clock is the system's, it
\* can be set back between two saves (clock adjustment, end of daylight saving)
WallClock == {0, 1}

\* len(data) of a notification, around the 3-byte header
PacketLens == {HEADER_BYTES - 1, HEADER_BYTES, HEADER_BYTES + 1}

\* what libopus.opus_decode returns: an error code or the number of samples
DecodeResults == {-1, MAX_FRAME_SAMPLES}

VARIABLES
    is_recording,          \* self.is_recording
    decoded_pcm,           \* self.decoded_pcm: frames of the active session
    recording_count,       \* self.recording_count
    last_speech_time,      \* self.last_speech_time
    recording_start_time,  \* self.recording_start_time
    pre_buffer,            \* self.pre_buffer: deque(maxlen=10)
    total_packets,         \* self.total_packets
    pc,                    \* position of run(): "listening" or "ended"
    clock,                 \* the event loop's monotonic time
    frame_samples,         \* samples the decoder returns per frame of this stream
    files,                 \* WAV files written to the output directory
    paths,                 \* the path each of those files was written to, in the same order
    stream,                \* history: every successfully decoded frame, in order
    heard_speech,          \* history: some decoded frame was louder than the threshold
    pushed,                \* history: frames appended to pre_buffer since it was last cleared
    onset,                 \* history: id of the frame that started the latest session, pre-roll taken
    tries,                 \* history: save_recording calls on the latest session, and how many raised
    last,                  \* history: what the latest step did
    enh,                   \* the EnhancedRecorder object's fields
    simple,                \* omi_recorder.py's globals decoded_pcm, notification_count
    mlast,                 \* history: what the latest call of a manual recorder did
    captured,              \* history: chunks EnhancedRecorder decoded since the latest start that took effect
    quit_event,            \* EnhancedRecorder.quit_event is set
    scheduled,             \* handlers run_coroutine_threadsafe queued on the loop, oldest first
    kbd_pc,                \* position of input_thread: "checking", "reading" or "exited"
    run_pc,                \* position of EnhancedRecorder.run: "waiting", "stopping" or "ended"
    config_file,           \* config.yaml in the project root: absent, unparsable or its parsed value
    config_cache,          \* config._config_cache
    cfg_last,              \* history: what the latest call into config.py did
    dir_exists,            \* the recordings directory exists
    wav_files,             \* names of the *.wav files in it
    md_files,              \* per name, the .md file next to the WAV: "none", "partial" or "full"
    prev_run,              \* history: the batch_transcribe run before the latest
    last_run,              \* history: the latest batch_transcribe run
    tr_last                \* history: what the latest transcription command did

autoVars == <<is_recording, decoded_pcm, recording_count, last_speech_time,
              recording_start_time, pre_buffer, total_packets, pc, clock,
              frame_samples, files, paths, stream, heard_speech, pushed, onset,
              tries, last>>

manualVars == <<enh, simple, mlast, captured>>

kbdVars == <<quit_event, scheduled, kbd_pc, run_pc>>

\* what a step of one program leaves alone: the other programs' state
configVars == <<config_file, config_cache, cfg_last>>

batchVars == <<dir_exists, wav_files, md_files, prev_run, last_run, tr_last>>

outsideAuto == <<manualVars, kbdVars, configVars, batchVars>>
outsideManual == <<autoVars, configVars, batchVars>>
outsideConfig == <<autoVars, manualVars, kbdVars, batchVars>>
outsideBatch == <<autoVars, manualVars, kbdVars, configVars>>

vars == <<autoVars, manualVars, kbdVars, configVars, batchVars>>

\* ------------------------------------------------------------- pure helpers
RECURSIVE TotalBytes(_)
\* sum(len(p) for p in self.decoded_pcm)
TotalBytes(frames) ==
    IF frames = <<>> THEN 0
    ELSE Head(frames).len + TotalBytes(Tail(frames))

IsSpeechAtOrAbove(level) == level >= SILENCE_THRESHOLD

\* is_speech = level > SILENCE_THRESHOLD
IsSpeech(level) == level > SILENCE_THRESHOLD

SpeechTimeStale(level, now, prev) == prev

\* if is_speech: self.last_speech_time = now
SpeechTime(level, now, prev) == IF IsSpeech(level) THEN now ELSE prev

DequeAppendUnbounded(buf, x) == Append(buf, x)

\* deque(maxlen=10).append: a full deque drops its oldest element
DequeAppend(buf, x) ==
    IF Len(buf) >= PRE_BUFFER_MAXLEN
    THEN Append(Tail(buf), x)
    ELSE Append(buf, x)

AccumulateFront(frames, pcm) == <<pcm>> \o frames

\* self.decoded_pcm.append(pcm)
Accumulate(frames, pcm) == Append(frames, pcm)

\* now - self.last_speech_time > SILENCE_DURATION
SilenceTimeout(now, lst) == now - lst > SILENCE_DURATION

\* duration < MIN_RECORDING_DURATION, with duration = (total_bytes // 2) / SAMPLE_RATE
TooShort(frames) ==
    (TotalBytes(frames) \div 2) < MIN_RECORDING_DURATION * SAMPLE_RATE

WavFileSkipsFirst(frames) ==
    [frames   |-> Tail(frames),
     samples  |-> TotalBytes(frames) \div 2,
     rate     |-> SAMPLE_RATE,
     size     |-> WAV_HEADER_BYTES + TotalBytes(Tail(frames))]

\* the WAV file wave.open/writeframes produces from the frames, with the
\* duration (as samples over SAMPLE_RATE) and the size the recorder reports
WavFile(frames) ==
    [frames   |-> frames,
     samples  |-> TotalBytes(frames) \div 2,
     rate     |-> SAMPLE_RATE,
     size     |-> WAV_HEADER_BYTES + TotalBytes(frames)]

\* wav_file = self.output_dir / f"omi_auto_{timestamp}.wav"
FileName(stamp) == [prefix |-> "omi_auto", timestamp |-> stamp]

\* save_recording(): what one call does, given whether the file write succeeds.
\* outcome: "empty" (nothing to save), "discarded", "saved", "raised" (the
\* write raised: recording_count was already incremented, no file is complete)
SaveRecording(frames, count, fs, io_ok) ==
    IF frames = <<>>
    THEN [outcome |-> "empty", count |-> count, files |-> fs]
    ELSE IF TooShort(frames)
    THEN [outcome |-> "discarded", count |-> count, files |-> fs]
    ELSE IF io_ok
    THEN [outcome |-> "saved", count |-> count + 1,
          files |-> Append(fs, WavFile(frames))]
    ELSE [outcome |-> "raised", count |-> count + 1, files |-> fs]

FlushSaveDup(frames, count, fs, io_ok) ==
    IF TotalBytes(frames) < MIN_RECORDING_DURATION * SAMPLE_RATE
    THEN [outcome |-> "discarded", count |-> count, files |-> fs]
    ELSE IF io_ok
    THEN [outcome |-> "saved", count |-> count + 1,
          files |-> Append(fs, [WavFile(frames) EXCEPT !.samples = TotalBytes(frames)])]
    ELSE [outcome |-> "raised", count |-> count + 1, files |-> fs]

\* run(), line 266: self.save_recording() on what is left at shutdown
FlushSave(frames, count, fs, io_ok) == SaveRecording(frames, count, fs, io_ok)

\* the record of a step that calls nothing: op is the operation, level the
\* frame's loudness, was_recording the state it found, codec whether it called
\* libopus.opus_decode, called whether it called save_recording, handed the
\* frames it passed, outcome what came back
NoStep == [op |-> "init", level |-> 0, was_recording |-> FALSE, codec |-> FALSE,
           called |-> FALSE, handed |-> <<>>, outcome |-> "none"]

NoTries == [calls |-> 0, failed |-> 0]

\* the count of calls after one more save_recording call came back with `outcome`
Tried(t, outcome) ==
    [calls |-> t.calls + 1,
     failed |-> t.failed + (IF outcome = "raised" THEN 1 ELSE 0)]

\* the paths after a call of save_recording: a saved file went to the path
\* named after the wall-clock reading of line 220
Written(ps, outcome, stamp) ==
    IF outcome = "saved" THEN Append(ps, FileName(stamp)) ELSE ps

ResetFramesKept(frames) == frames

\* EnhancedRecorder.__init__; session_timestamp is read once, at construction
EnhancedRecorder(stamp) ==
    [state |-> "IDLE", decoded_pcm |-> <<>>, notification_count |-> 0,
     recording_number |-> 0, session_timestamp |-> stamp, saved_files |-> <<>>]

\* the record of a manual recorder's call that did nothing: len is the packet's
\* length, codec whether opus_decode was called, payload the length it was
\* given, appended whether a PCM chunk was added to decoded_pcm, outcome what
\* a stop_recording it made came to
NoCall == [op |-> "init", len |-> 0, codec |-> FALSE, payload |-> 0,
           appended |-> FALSE, outcome |-> "none"]

\* if len(data_bytes) < 3: return
HeaderMissing(len) == len < HEADER_BYTES

\* audio_data = data_bytes[3:]; len(audio_data)
PayloadLen(len) == IF len > HEADER_BYTES THEN len - HEADER_BYTES ELSE 0

\* if samples > 0: decoded_pcm.append(ctypes.string_at(pcm_buffer, samples * 2))
Decoded(frames, samples) ==
    IF samples > 0
    THEN Append(frames, [id |-> Len(frames) + 1, len |-> 2 * samples])
    ELSE frames

\* filename = f"omi_{self.session_timestamp}_{self.recording_number:03d}.wav"
EnhancedFileName(stamp, number) ==
    [prefix |-> "omi", timestamp |-> stamp, number |-> number]

\* ---------------------------------------------------------------- config.py
\* Python values: kind is "none", "number" (int, float, bool), "text" or
\* "dict"; v is the number or text as written, or the dict's items
None == [kind |-> "none", v |-> ""]
Number(x) == [kind |-> "number", v |-> x]
Text(x) == [kind |-> "text", v |-> x]
Dict(items) == [kind |-> "dict", v |-> items]
EmptyDict == Dict([key \in {} |-> None])
IsDict(x) == x.kind = "dict"
Keys(x) == DOMAIN x.v

\* what a call that raised hands to its caller
TypeError == [kind |-> "TypeError", v |-> ""]
AttributeError == [kind |-> "AttributeError", v |-> ""]
Raised(x) == x.kind \in {"TypeError", "AttributeError"}

\* no config.yaml; one that open() or yaml.safe_load() raises on; a key that
\* a mapping does not have
Absent == [kind |-> "absent", v |-> ""]
Unparsable == [kind |-> "unparsable", v |-> ""]
Missing == [kind |-> "missing", v |-> ""]

DEFAULTS ==
    Dict([recording |->
              Dict([silence_threshold |-> Number("500"),
                    silence_duration |-> Number("3.0"),
                    min_recording_duration |-> Number("1.0"),
                    sample_rate |-> Number("16000")]),
          transcription |->
              Dict([model |-> Text("base"),
                    language |-> Text(""),
                    enable_rtl_support |-> Number("True")]),
          directory |->
              Dict([recordings_dir |-> Text("omi_recordings"),
                    transcripts_dir |-> Text("omi_recordings")]),
          device |->
              Dict([discovery_timeout |-> Number("10.0")])])

\* the mapping d without the keys marked Missing
Present(d) ==
    Dict([key \in {k \in Keys(d) : d.v[k].kind # "missing"} |-> d.v[key]])

\* what config.yaml may hold under recording:, device: and a section of its own
RecordingEntries ==
    {Missing, None, Number("5"),
     Dict([silence_threshold |-> Number("800")]),
     Dict([silence_threshold |-> Number("800"),
           silence_duration |-> Number("2.0"),
           min_recording_duration |-> Number("0.5"),
           sample_rate |-> Number("8000"),
           gain |-> Number("2")])}

DeviceEntries == {Missing, None, Dict([discovery_timeout |-> Number("5.0")])}

PluginEntries == {Missing, Dict([enabled |-> Number("True")])}

\* config.yaml: absent, unparsable, empty, a number, or a mapping
ConfigFiles ==
    {Absent, Unparsable, None, Number("5")} \cup
    {Present(Dict([recording |-> r, device |-> d, plugins |-> x])) :
        r \in RecordingEntries, d \in DeviceEntries, x \in PluginEntries}

\* bool(x)
Truthy(x) ==
    CASE x.kind = "none" -> FALSE
      [] x.kind = "number" -> x.v \notin {"0", "0.0", "False"}
      [] x.kind = "text" -> x.v # ""
      [] x.kind = "dict" -> Keys(x) # {}

\* _find_config_file
FindConfigFile(file) == IF file.kind = "absent" THEN None ELSE file

\* _load_yaml: yaml.safe_load(f) or {}, and {} on any exception
LoadYaml(file) ==
    IF file.kind = "unparsable" THEN EmptyDict
    ELSE IF Truthy(file) THEN file
    ELSE EmptyDict

RECURSIVE DeepMerge(_, _)
\* _deep_merge; `key in override` raises TypeError on a number or None (a
\* top-level text or list is not among ConfigFiles)
DeepMerge(base, override) ==
    IF ~IsDict(override) THEN TypeError
    ELSE Dict([key \in Keys(base) |->
                  IF key \in Keys(override)
                  THEN IF IsDict(base.v[key]) /\ IsDict(override.v[key])
                       THEN DeepMerge(base.v[key], override.v[key])
                       ELSE override.v[key]
                  ELSE base.v[key]])

\* load_config: what it returns, or the exception that leaves it
LoadedConfig(cache, file) ==
    IF cache.kind # "none" THEN cache
    ELSE IF FindConfigFile(file).kind = "none" /\ file.kind = "absent" THEN DEFAULTS
    ELSE IF Truthy(LoadYaml(file)) THEN DeepMerge(DEFAULTS, LoadYaml(file))
    ELSE DEFAULTS

\* config.get(section, {}).get(key, default) on the loaded configuration
GetValue(config, section, key, default) ==
    IF Raised(config) THEN config
    ELSE LET sec == IF section \in Keys(config) THEN config.v[section]
                    ELSE EmptyDict
         IN IF ~IsDict(sec) THEN AttributeError
            ELSE IF key \in Keys(sec) THEN sec.v[key]
            ELSE default

NoConfigCall == [op |-> "init", section |-> "", key |-> "", raised |-> FALSE,
                 value |-> None]

\* ------------------------------------------------------------ transcribe.py
\* stems of the WAV files a recordings directory may hold
WavNames == {"omi_auto_20260120_143022", "Already transcribed"}

\* how the transcription of one file goes: Whisper and the write of the .md
\* succeed, transcribe_audio or generate_markdown raises, or f.write raises
\* after open(md_path, 'w') created or truncated the file
Outcomes == {"ok", "transcribe_raises", "write_raises"}

ShouldTranscribeAlways(md, force) == TRUE

\* should_transcribe: md is the state of the .md file next to the WAV
ShouldTranscribe(md, force) ==
    IF force THEN TRUE ELSE ~(md # "none")

\* transcribe_file: success and message returned, whether the Whisper model
\* was loaded, whether the .md was opened for writing, and the .md afterwards
TranscribeFileResult(wav, md, force, outcome) ==
    IF ~ShouldTranscribe(md, force)
    THEN [success |-> TRUE, message |-> [text |-> "Already transcribed: ", name |-> wav],
          loaded |-> FALSE, wrote |-> FALSE, md |-> md]
    ELSE IF outcome = "ok"
    THEN [success |-> TRUE, message |-> [text |-> "Transcribed: ", name |-> wav],
          loaded |-> TRUE, wrote |-> TRUE, md |-> "full"]
    ELSE IF outcome = "write_raises"
    THEN [success |-> FALSE, message |-> [text |-> "Failed: ", name |-> wav],
          loaded |-> TRUE, wrote |-> TRUE, md |-> "partial"]
    ELSE [success |-> FALSE, message |-> [text |-> "Failed: ", name |-> wav],
          loaded |-> TRUE, wrote |-> FALSE, md |-> md]

\* "Already transcribed" in message; the message embeds the file's name
ContainsAlready(message) ==
    \/ message.text = "Already transcribed: "
    \/ message.name = "Already transcribed"

\* the counter of stats that batch_transcribe increments for one file
Counted(result) ==
    IF result.success
    THEN IF ContainsAlready(result.message) THEN "skipped" ELSE "succeeded"
    ELSE "failed"

\* batch_transcribe over the WAV files wavs, the .md files being md, the
\* transcription of each file going as outcome says
BatchRun(wavs, md, force, outcome) ==
    LET result == [w \in wavs |-> TranscribeFileResult(w, md[w], force, outcome[w])]
        counted == [w \in wavs |-> Counted(result[w])]
    IN [ran |-> TRUE, force |-> force, wavs |-> wavs, before |-> md,
        after |-> [w \in DOMAIN md |-> IF w \in wavs THEN result[w].md ELSE md[w]],
        attempted |-> {w \in wavs : result[w].loaded},
        written |-> {w \in wavs : result[w].wrote},
        counted |-> counted,
        stats |-> [total |-> Cardinality(wavs),
                   succeeded |-> Cardinality({w \in wavs : counted[w] = "succeeded"}),
                   failed |-> Cardinality({w \in wavs : counted[w] = "failed"}),
                   skipped |-> Cardinality({w \in wavs : counted[w] = "skipped"})]]

NoRun == [ran |-> FALSE]

\* def batch_transcribe(recordings_dir, model, force)
BatchTranscribeParams == {"recordings_dir", "model", "force"}

\* transcribe_batch(args.dir, model=..., force=..., transcripts_dir=...)
MainKeywords == {"model", "force", "transcripts_dir"}

\* a Python call binds its keyword arguments or raises TypeError
Accepts(params, keywords) == keywords \subseteq params

NoCommand ==
    [op |-> "init", wav |-> "", force |-> FALSE, had_md |-> FALSE,
     dir_existed |-> FALSE, wavs |-> {}, success |-> FALSE, loaded |-> FALSE,
     wrote |-> FALSE, ran |-> FALSE, raised |-> FALSE, failed |-> 0, exit |-> 0]

StartRecordedAlways(e) ==
    [e EXCEPT !.state = "RECORDING", !.decoded_pcm = <<>>,
              !.notification_count = 0]

StartRecordedKeepsAudio(e) ==
    IF e.state = "RECORDING"
    THEN e
    ELSE [e EXCEPT !.state = "RECORDING", !.notification_count = 0]

\* EnhancedRecorder.start_recording: the recorder's fields when it returns
StartRecorded(e) ==
    IF e.state = "RECORDING"
    THEN e
    ELSE [e EXCEPT !.state = "RECORDING", !.decoded_pcm = <<>>,
                   !.notification_count = 0]

ProcessedAnyState(e, len, samples) ==
    IF HeaderMissing(len)
    THEN [e EXCEPT !.notification_count = @ + 1]
    ELSE [e EXCEPT !.notification_count = @ + 1,
                   !.decoded_pcm = Decoded(@, samples)]

\* EnhancedRecorder.process_audio: the recorder's fields when it returns, for
\* a packet of `len` bytes for which opus_decode, if called, returns `samples`
Processed(e, len, samples) ==
    IF e.state # "RECORDING"
    THEN e
    ELSE IF HeaderMissing(len)
    THEN [e EXCEPT !.notification_count = @ + 1]
    ELSE [e EXCEPT !.notification_count = @ + 1,
                   !.decoded_pcm = Decoded(@, samples)]

\* which branch of stop_recording a call takes: "ignored" (not recording),
\* "empty" (no audio captured), "saved", or "raised" (the write raised)
StopOutcome(e, io_ok) ==
    IF e.state # "RECORDING" THEN "ignored"
    ELSE IF e.decoded_pcm = <<>> THEN "empty"
    ELSE IF io_ok THEN "saved"
    ELSE "raised"

StoppedUncaught(e, io_ok) ==
    IF e.state # "RECORDING"
    THEN e
    ELSE IF e.decoded_pcm = <<>>
    THEN [e EXCEPT !.state = "IDLE"]
    ELSE IF ~io_ok
    THEN [e EXCEPT !.state = "STOPPED", !.recording_number = @ + 1]
    ELSE [e EXCEPT
            !.state = "IDLE",
            !.recording_number = @ + 1,
            !.saved_files =
                Append(@, [path |-> EnhancedFileName(e.session_timestamp,
                                                     e.recording_number + 1),
                           frames |-> e.decoded_pcm,
                           samples |-> TotalBytes(e.decoded_pcm) \div 2,
                           size |-> WAV_HEADER_BYTES + TotalBytes(e.decoded_pcm)])]

\* EnhancedRecorder.stop_recording: the recorder's fields when it returns; the
\* write of the WAV file succeeds (io_ok) or raises and is caught
Stopped(e, io_ok) ==
    IF e.state # "RECORDING"
    THEN e
    ELSE IF e.decoded_pcm = <<>>
    THEN [e EXCEPT !.state = "IDLE"]
    ELSE [e EXCEPT
            !.state = "IDLE",
            !.recording_number = @ + 1,
            !.saved_files =
                IF io_ok
                THEN Append(@, [path |-> EnhancedFileName(e.session_timestamp,
                                                          e.recording_number + 1),
                                frames |-> e.decoded_pcm,
                                samples |-> TotalBytes(e.decoded_pcm) \div 2,
                                size |-> WAV_HEADER_BYTES + TotalBytes(e.decoded_pcm)])
                ELSE @]

ClearPreRollKept(buf) == buf

\* self.pre_buffer.clear()  (line 180)
ClearPreRoll(buf) == <<>>

\* self.decoded_pcm = []  (line 197)
ResetFrames(frames) == <<>>

\* --------------------------------------------------------------------- Init
Init ==
    /\ is_recording = FALSE
    /\ decoded_pcm = <<>>
    /\ recording_count = 0
    /\ last_speech_time = 0
    /\ recording_start_time = 0
    /\ pre_buffer = <<>>
    /\ total_packets = 0
    /\ pc = "listening"
    /\ clock = 0
    /\ frame_samples \in FrameSizes
    /\ files = <<>>
    /\ paths = <<>>
    /\ stream = <<>>
    /\ heard_speech = FALSE
    /\ pushed = <<>>
    /\ onset = [id |-> 0, pre |-> <<>>]
    /\ tries = NoTries
    /\ last = NoStep
    /\ enh = EnhancedRecorder(0)
    /\ simple = [decoded_pcm |-> <<>>, notification_count |-> 0]
    /\ mlast = NoCall
    /\ captured = <<>>
    /\ quit_event = FALSE
    /\ scheduled = <<>>
    /\ kbd_pc = "checking"
    /\ run_pc = "waiting"
    /\ config_file = Absent
    /\ config_cache = None
    /\ cfg_last = NoConfigCall
    /\ dir_exists = FALSE
    /\ wav_files = {}
    /\ md_files = [w \in WavNames |-> "none"]
    /\ prev_run = NoRun
    /\ last_run = NoRun
    /\ tr_last = NoCommand

\* ------------------------------------------------------------------ actions
TickFinalizes ==
    /\ pc = "listening"
    /\ clock < MaxTime
    /\ clock' = clock + 1
    /\ IF is_recording /\ clock + 1 - last_speech_time > SILENCE_DURATION
       THEN is_recording' = FALSE /\ decoded_pcm' = <<>>
       ELSE UNCHANGED <<is_recording, decoded_pcm>>
    /\ last' = [NoStep EXCEPT !.op = "tick", !.was_recording = is_recording]
    /\ UNCHANGED <<recording_count, last_speech_time,
                   recording_start_time, pre_buffer, total_packets, pc,
                   frame_samples, files, paths, stream, heard_speech, pushed, onset,
                   tries>>
    /\ UNCHANGED outsideAuto

\* the event loop's clock advances
Tick ==
    /\ pc = "listening"
    /\ clock < MaxTime
    /\ clock' = clock + 1
    /\ last' = [NoStep EXCEPT !.op = "tick", !.was_recording = is_recording]
    /\ UNCHANGED <<is_recording, decoded_pcm, recording_count, last_speech_time,
                   recording_start_time, pre_buffer, total_packets, pc,
                   frame_samples, files, paths, stream, heard_speech, pushed, onset,
                   tries>>
    /\ UNCHANGED outsideAuto

HandleDroppedTimestamped(kind) ==
    /\ pc = "listening"
    /\ total_packets - Len(stream) < MaxDrops
    /\ total_packets' = total_packets + 1
    /\ last_speech_time' = clock
    /\ last' = [NoStep EXCEPT !.op = kind, !.was_recording = is_recording,
                              !.codec = (kind = "undecodable")]
    /\ UNCHANGED <<is_recording, decoded_pcm, recording_count,
                   recording_start_time, pre_buffer, pc, clock,
                   frame_samples, files, paths, stream, heard_speech, pushed, onset,
                   tries>>
    /\ UNCHANGED outsideAuto

HandleDroppedFinalizes(kind) ==
    /\ pc = "listening"
    /\ total_packets - Len(stream) < MaxDrops
    /\ total_packets' = total_packets + 1
    /\ IF is_recording /\ clock - last_speech_time > SILENCE_DURATION
       THEN is_recording' = FALSE /\ decoded_pcm' = <<>>
       ELSE UNCHANGED <<is_recording, decoded_pcm>>
    /\ last' = [NoStep EXCEPT !.op = kind, !.was_recording = is_recording,
                              !.codec = (kind = "undecodable")]
    /\ UNCHANGED <<recording_count, last_speech_time,
                   recording_start_time, pre_buffer, pc, clock,
                   frame_samples, files, paths, stream, heard_speech, pushed, onset,
                   tries>>
    /\ UNCHANGED outsideAuto

\* handle_audio on a packet that yields no PCM: len(data) <= 3 ("short":
\* decode_opus returns b'' before it reaches the codec) or the codec fails
\* ("undecodable": opus_decode returns no samples or raises); the handler
\* returns right after counting the packet
HandleDropped(kind) ==
    /\ pc = "listening"
    /\ total_packets - Len(stream) < MaxDrops
    /\ total_packets' = total_packets + 1
    /\ last' = [NoStep EXCEPT !.op = kind, !.was_recording = is_recording,
                              !.codec = (kind = "undecodable")]
    /\ UNCHANGED <<is_recording, decoded_pcm, recording_count, last_speech_time,
                   recording_start_time, pre_buffer, pc, clock,
                   frame_samples, files, paths, stream, heard_speech, pushed, onset,
                   tries>>
    /\ UNCHANGED outsideAuto

\* the part of handle_audio run while not recording (lines 170-182)
HandleIdle(pcm, level, now) ==
    LET buf == DequeAppend(pre_buffer, pcm) IN
    /\ IF IsSpeech(level)
       THEN /\ is_recording' = TRUE
            /\ recording_start_time' = now
            /\ decoded_pcm' = buf
            /\ pre_buffer' = ClearPreRoll(buf)
            /\ pushed' = <<>>
            /\ onset' = [id |-> pcm.id, pre |-> SubSeq(buf, 1, Len(buf) - 1)]
            /\ tries' = NoTries
       ELSE /\ pre_buffer' = buf
            /\ pushed' = Append(pushed, pcm)
            /\ UNCHANGED <<is_recording, recording_start_time, decoded_pcm, onset,
                           tries>>
    /\ last' = [NoStep EXCEPT !.op = "frame", !.level = level, !.codec = TRUE]
    /\ UNCHANGED <<recording_count, files, paths>>

\* the part of handle_audio run while recording (lines 184-205); lst is
\* self.last_speech_time as line 168 left it
HandleRecording(pcm, level, now, lst, io_ok) ==
    LET acc == Accumulate(decoded_pcm, pcm) IN
    /\ IF SilenceTimeout(now, lst)
       THEN \E res \in {SaveRecording(acc, recording_count, files, io_ok)} :
            /\ recording_count' = res.count
            /\ files' = res.files
            /\ \E stamp \in (IF res.outcome = "saved" THEN WallClock ELSE {0}) :
                  paths' = Written(paths, res.outcome, stamp)
            /\ tries' = Tried(tries, res.outcome)
            /\ IF res.outcome = "raised"
               THEN \* the exception leaves handle_audio before lines 196-197
                    /\ decoded_pcm' = acc
                    /\ UNCHANGED is_recording
               ELSE /\ is_recording' = FALSE
                    /\ decoded_pcm' = ResetFrames(acc)
            /\ last' = [op |-> "frame", level |-> level,
                        was_recording |-> TRUE, codec |-> TRUE, called |-> TRUE,
                        handed |-> acc, outcome |-> res.outcome]
       ELSE /\ decoded_pcm' = acc
            /\ last' = [NoStep EXCEPT !.op = "frame", !.level = level,
                                      !.was_recording = TRUE, !.codec = TRUE]
            /\ UNCHANGED <<is_recording, recording_count, files, paths, tries>>
    /\ UNCHANGED <<recording_start_time, pre_buffer, pushed, onset>>

\* handle_audio on a packet the decoder turns into a non-empty frame whose
\* RMS level is `level`
HandleFrame(level, io_ok, limit) ==
    LET now == clock
        pcm == [id |-> Len(stream) + 1, len |-> 2 * frame_samples]
        lst == SpeechTime(level, now, last_speech_time)
    IN
    /\ pc = "listening"
    /\ Len(stream) < limit
    /\ total_packets' = total_packets + 1
    /\ stream' = Append(stream, pcm)
    /\ heard_speech' = (heard_speech \/ level > SILENCE_THRESHOLD)
    /\ last_speech_time' = lst
    /\ IF ~is_recording
       THEN HandleIdle(pcm, level, now)
       ELSE HandleRecording(pcm, level, now, lst, io_ok)
    /\ UNCHANGED <<pc, clock, frame_samples>>
    /\ UNCHANGED outsideAuto

HandleAudio(level, io_ok) == HandleFrame(level, io_ok, MaxFrames)

\* run() leaves its wait loop: stop_notify, then lines 263-266 save what is
\* left.  A raised write is caught by run's outer handler.
Shutdown(io_ok) ==
    /\ pc = "listening"
    /\ pc' = "ended"
    /\ IF is_recording /\ decoded_pcm # <<>>
       THEN \E res \in {FlushSave(decoded_pcm, recording_count, files, io_ok)} :
            /\ recording_count' = res.count
            /\ files' = res.files
            /\ \E stamp \in (IF res.outcome = "saved" THEN WallClock ELSE {0}) :
                  paths' = Written(paths, res.outcome, stamp)
            /\ tries' = Tried(tries, res.outcome)
            /\ last' = [op |-> "flush", level |-> 0,
                        was_recording |-> is_recording, codec |-> FALSE,
                        called |-> TRUE,
                        handed |-> decoded_pcm, outcome |-> res.outcome]
       ELSE /\ last' = [NoStep EXCEPT !.op = "flush",
                                      !.was_recording = is_recording]
            /\ UNCHANGED <<recording_count, files, paths, tries>>
    /\ UNCHANGED <<is_recording, decoded_pcm, last_speech_time,
                   recording_start_time, pre_buffer, total_packets, clock,
                   frame_samples, stream, heard_speech, pushed, onset>>
    /\ UNCHANGED outsideAuto

Next ==
    \/ Tick
    \/ \E kind \in {"short", "undecodable"} : HandleDropped(kind)
    \/ \E level \in Levels, io_ok \in BOOLEAN : HandleAudio(level, io_ok)
    \/ \E io_ok \in BOOLEAN : Shutdown(io_ok)

Spec == Init /\ [][Next]_vars

\* ----------------------------------------------------- two-session runs
\* runs of full 960-sample frames long enough to hold two kept sessions
InitLong ==
    /\ Init
    /\ frame_samples = MAX_FRAME_SAMPLES

NextLong ==
    \/ Tick
    \/ \E level \in Levels, io_ok \in BOOLEAN :
          HandleFrame(level, io_ok, MaxFramesLong)
    \/ \E io_ok \in BOOLEAN : Shutdown(io_ok)

SpecLong == InitLong /\ [][NextLong]_vars

\* ------------------------------------------------------ manual recorders
\* EnhancedRecorder.start_recording
StartRecording ==
    /\ run_pc # "ended"
    /\ enh' = StartRecorded(enh)
    /\ mlast' = [NoCall EXCEPT !.op = "start"]
    /\ captured' = IF enh.state = "RECORDING" THEN captured ELSE <<>>
    /\ UNCHANGED <<simple, kbdVars, outsideManual>>

\* EnhancedRecorder.process_audio, the notification callback, on a packet of
\* `len` bytes for which opus_decode, if it is called, returns `samples`
EnhancedProcessAudio(len, samples) ==
    /\ run_pc # "ended"
    /\ enh.notification_count < MaxNotifications
    /\ enh' = Processed(enh, len, samples)
    /\ mlast' = IF enh.state = "RECORDING" /\ ~HeaderMissing(len)
                THEN [op |-> "enhanced", len |-> len, codec |-> TRUE,
                      payload |-> PayloadLen(len), appended |-> (samples > 0), outcome |-> "none"]
                ELSE [NoCall EXCEPT !.op = "enhanced", !.len = len]
    /\ captured' = IF enh.state = "RECORDING" /\ ~HeaderMissing(len)
                       /\ samples > 0
                    THEN Append(captured, [id |-> Len(captured) + 1,
                                           len |-> 2 * samples])
                    ELSE captured
    /\ UNCHANGED <<simple, kbdVars, outsideManual>>

\* EnhancedRecorder.stop_recording
StopRecording(io_ok) ==
    /\ run_pc # "ended"
    /\ enh.recording_number < MaxRecordings
    /\ enh' = Stopped(enh, io_ok)
    /\ mlast' = [NoCall EXCEPT !.op = "stop",
                                !.outcome = StopOutcome(enh, io_ok)]
    /\ UNCHANGED captured
    /\ UNCHANGED <<simple, kbdVars, outsideManual>>

\* omi_recorder.py's process_audio
ProcessAudio(len, samples) ==
    /\ simple.notification_count < MaxNotifications
    /\ IF HeaderMissing(len)
       THEN /\ simple' = [simple EXCEPT !.notification_count = @ + 1]
            /\ mlast' = [NoCall EXCEPT !.op = "simple", !.len = len]
       ELSE /\ simple' = [simple EXCEPT !.notification_count = @ + 1,
                                        !.decoded_pcm = Decoded(@, samples)]
            /\ mlast' = [op |-> "simple", len |-> len, codec |-> TRUE,
                         payload |-> PayloadLen(len),
                         appended |-> (samples > 0), outcome |-> "none"]
    /\ UNCHANGED <<enh, captured, kbdVars, outsideManual>>

NextManual ==
    \/ StartRecording
    \/ \E len \in PacketLens, samples \in DecodeResults :
          EnhancedProcessAudio(len, samples)
    \/ \E io_ok \in BOOLEAN : StopRecording(io_ok)
    \/ \E len \in PacketLens, samples \in DecodeResults :
          ProcessAudio(len, samples)

SpecManual == Init /\ [][NextManual]_vars

\* ---------------------------------------------------------------- config.py
\* the user's config.yaml, as the process finds it; it is read once, at the
\* first load_config
WriteConfigFile(file) ==
    /\ config_cache.kind = "none"
    /\ cfg_last.op \in {"init", "reset"}
    /\ config_file' = file
    /\ cfg_last' = [NoConfigCall EXCEPT !.op = "write"]
    /\ UNCHANGED <<config_cache, outsideConfig>>

\* a call of load_config
LoadConfig ==
    \E res \in {LoadedConfig(config_cache, config_file)} :
        /\ config_cache' = IF Raised(res) THEN config_cache ELSE res
        /\ cfg_last' = [NoConfigCall EXCEPT !.op = "load",
                                            !.raised = Raised(res),
                                            !.value = res]
        /\ UNCHANGED <<config_file, outsideConfig>>

\* a call of get(section, key), default None
Get(section, key) ==
    \E config \in {LoadedConfig(config_cache, config_file)} :
    \E res \in {GetValue(config, section, key, None)} :
        /\ config_cache' = IF Raised(config) THEN config_cache ELSE config
        /\ cfg_last' = [op |-> "get", section |-> section, key |-> key,
                        raised |-> Raised(res), value |-> res]
        /\ UNCHANGED <<config_file, outsideConfig>>

\* reset_cache
ResetCache ==
    /\ config_cache' = None
    /\ cfg_last' = [NoConfigCall EXCEPT !.op = "reset"]
    /\ UNCHANGED <<config_file, outsideConfig>>

\* the sections and keys callers ask for: every default, and one of neither
AskedSections == Keys(DEFAULTS) \cup {"plugins"}
AskedKeys(section) ==
    IF section \in Keys(DEFAULTS) THEN Keys(DEFAULTS.v[section]) \cup {"gain"}
    ELSE {"enabled"}

NextConfig ==
    \/ \E file \in ConfigFiles : WriteConfigFile(file)
    \/ LoadConfig
    \/ \E section \in AskedSections : \E key \in AskedKeys(section) :
          Get(section, key)
    \/ ResetCache

SpecConfig == Init /\ [][NextConfig]_vars

\* ------------------------------------------- transcribe.py, batch_transcribe.py
\* a recorder creates the recordings directory (output_dir.mkdir)
MakeOutputDir ==
    /\ ~dir_exists
    /\ dir_exists' = TRUE
    /\ tr_last' = [NoCommand EXCEPT !.op = "mkdir"]
    /\ UNCHANGED <<wav_files, md_files, prev_run, last_run, outsideBatch>>

\* a recorder saves a WAV file there
SaveWav(wav) ==
    /\ dir_exists
    /\ wav \notin wav_files
    /\ wav_files' = wav_files \cup {wav}
    /\ tr_last' = [NoCommand EXCEPT !.op = "wav", !.wav = wav]
    /\ UNCHANGED <<dir_exists, md_files, prev_run, last_run, outsideBatch>>

\* python transcribe.py <wav_file>: transcribe_file(wav_file)
TranscribeFile(wav, outcome) ==
    /\ wav \in wav_files
    /\ \E res \in {TranscribeFileResult(wav, md_files[wav], FALSE, outcome)} :
          /\ md_files' = [md_files EXCEPT ![wav] = res.md]
          /\ tr_last' = [NoCommand EXCEPT !.op = "file", !.wav = wav,
                                          !.had_md = (md_files[wav] # "none"),
                                          !.success = res.success,
                                          !.loaded = res.loaded,
                                          !.wrote = res.wrote]
    /\ UNCHANGED <<dir_exists, wav_files, prev_run, last_run, outsideBatch>>

\* python transcribe.py --batch [--force]: batch_transcribe(recordings_dir,
\* force=force); it raises FileNotFoundError when the directory is missing
BatchTranscribe(force, outcome) ==
    IF ~dir_exists
    THEN /\ tr_last' = [NoCommand EXCEPT !.op = "batch", !.force = force,
                                         !.raised = TRUE]
         /\ UNCHANGED <<dir_exists, wav_files, md_files, prev_run, last_run,
                        outsideBatch>>
    ELSE \E run \in {BatchRun(wav_files, md_files, force, outcome)} :
         /\ md_files' = run.after
         /\ prev_run' = last_run
         /\ last_run' = run
         /\ tr_last' = [NoCommand EXCEPT !.op = "batch", !.force = force,
                                         !.dir_existed = TRUE,
                                         !.wavs = wav_files, !.ran = TRUE,
                                         !.failed = run.stats.failed]
         /\ UNCHANGED <<dir_exists, wav_files, outsideBatch>>

\* python batch_transcribe.py [--force]: main()
Main(force, outcome) ==
    IF ~dir_exists
    THEN /\ tr_last' = [NoCommand EXCEPT !.op = "main", !.force = force,
                                         !.exit = 1]
         /\ UNCHANGED <<dir_exists, wav_files, md_files, prev_run, last_run,
                        outsideBatch>>
    ELSE IF wav_files = {}
    THEN /\ tr_last' = [NoCommand EXCEPT !.op = "main", !.force = force,
                                         !.dir_existed = TRUE, !.exit = 0]
         /\ UNCHANGED <<dir_exists, wav_files, md_files, prev_run, last_run,
                        outsideBatch>>
    ELSE IF ~Accepts(BatchTranscribeParams, MainKeywords)
    THEN /\ tr_last' = [NoCommand EXCEPT !.op = "main", !.force = force,
                                         !.dir_existed = TRUE,
                                         !.wavs = wav_files,
                                         !.raised = TRUE, !.exit = 1]
         /\ UNCHANGED <<dir_exists, wav_files, md_files, prev_run, last_run,
                        outsideBatch>>
    ELSE \E run \in {BatchRun(wav_files, md_files, force, outcome)} :
         /\ md_files' = run.after
         /\ prev_run' = last_run
         /\ last_run' = run
         /\ tr_last' = [NoCommand EXCEPT !.op = "main", !.force = force,
                                         !.dir_existed = TRUE,
                                         !.wavs = wav_files, !.ran = TRUE,
                                         !.failed = run.stats.failed,
                                         !.exit = IF run.stats.failed = 0
                                                  THEN 0 ELSE 1]
         /\ UNCHANGED <<dir_exists, wav_files, outsideBatch>>

NextBatch ==
    \/ MakeOutputDir
    \/ \E wav \in WavNames : SaveWav(wav)
    \/ \E wav \in WavNames, outcome \in Outcomes : TranscribeFile(wav, outcome)
    \/ \E force \in BOOLEAN, outcome \in [WavNames -> Outcomes] :
          BatchTranscribe(force, outcome)
    \/ \E force \in BOOLEAN, outcome \in [WavNames -> Outcomes] :
          Main(force, outcome)

SpecBatch == Init /\ [][NextBatch]_vars

\* ------------------------------- the interactive recorder's keyboard thread
\* input_thread, top of its loop: while not self.quit_event.is_set()
ThreadCheck ==
    /\ kbd_pc = "checking"
    /\ kbd_pc' = IF quit_event THEN "exited" ELSE "reading"
    /\ UNCHANGED <<quit_event, scheduled, run_pc, manualVars, outsideManual>>

\* input_thread reads one character and hands its handler to the event loop
ThreadRead(cmd) ==
    /\ kbd_pc = "reading"
    /\ Len(scheduled) < MaxScheduled
    /\ scheduled' = Append(scheduled, cmd)
    /\ kbd_pc' = "checking"
    /\ UNCHANGED <<quit_event, run_pc, manualVars, outsideManual>>

\* the event loop runs _handle_start_command
HandleStartCommand ==
    /\ run_pc # "ended"
    /\ scheduled # <<>>
    /\ Head(scheduled) = "r"
    /\ scheduled' = Tail(scheduled)
    /\ enh' = StartRecorded(enh)
    /\ mlast' = [NoCall EXCEPT !.op = "start"]
    /\ captured' = IF enh.state = "RECORDING" THEN captured ELSE <<>>
    /\ UNCHANGED <<simple, quit_event, kbd_pc, run_pc, outsideManual>>

\* the event loop runs _handle_stop_command
HandleStopCommand(io_ok) ==
    /\ run_pc # "ended"
    /\ scheduled # <<>>
    /\ Head(scheduled) = "s"
    /\ enh.recording_number < MaxRecordings
    /\ scheduled' = Tail(scheduled)
    /\ enh' = Stopped(enh, io_ok)
    /\ mlast' = [NoCall EXCEPT !.op = "stop",
                                !.outcome = StopOutcome(enh, io_ok)]
    /\ UNCHANGED captured
    /\ UNCHANGED <<simple, quit_event, kbd_pc, run_pc, outsideManual>>

\* the event loop runs _handle_quit_command
HandleQuitCommand(io_ok) ==
    /\ run_pc # "ended"
    /\ scheduled # <<>>
    /\ Head(scheduled) = "q"
    /\ enh.recording_number < MaxRecordings
    /\ scheduled' = Tail(scheduled)
    /\ enh' = IF enh.state = "RECORDING" THEN Stopped(enh, io_ok) ELSE enh
    /\ quit_event' = TRUE
    /\ mlast' = [NoCall EXCEPT !.op = "quit",
                                !.outcome = StopOutcome(enh, io_ok)]
    /\ UNCHANGED captured
    /\ UNCHANGED <<simple, kbd_pc, run_pc, outsideManual>>

\* run() wakes from asyncio.sleep(0.1), finds quit_event set and awaits
\* client.stop_notify; the loop keeps running handlers and callbacks meanwhile
RunWakes ==
    /\ run_pc = "waiting"
    /\ quit_event
    /\ run_pc' = "stopping"
    /\ UNCHANGED <<quit_event, scheduled, kbd_pc, manualVars, outsideManual>>

\* stop_notify completes, run() prints the summary and returns; asyncio.run
\* cancels what is still queued
StopNotify ==
    /\ run_pc = "stopping"
    /\ run_pc' = "ended"
    /\ UNCHANGED <<quit_event, scheduled, kbd_pc, manualVars, outsideManual>>

NextKeyboard ==
    \/ ThreadCheck
    \/ \E cmd \in {"r", "s", "q"} : ThreadRead(cmd)
    \/ HandleStartCommand
    \/ \E io_ok \in BOOLEAN : HandleStopCommand(io_ok)
    \/ \E io_ok \in BOOLEAN : HandleQuitCommand(io_ok)
    \/ \E len \in PacketLens, samples \in DecodeResults :
          EnhancedProcessAudio(len, samples)
    \/ RunWakes
    \/ StopNotify

SpecKeyboard == Init /\ [][NextKeyboard]_vars

\* ------------------------------------------------------------------- claims
\* a step of handle_audio that decoded a non-empty frame
FrameStep == Len(stream') = Len(stream) + 1
NewFrame == stream'[Len(stream')]
MinSamples == MIN_RECORDING_DURATION * SAMPLE_RATE
Samples(frames) == TotalBytes(frames) \div 2
LastN(s, n) == SubSeq(s, Len(s) - (IF Len(s) < n THEN Len(s) ELSE n) + 1, Len(s))

\* C1 (as claimed): after a frame processed while Recording, if
\* now - last_speech_time > silence_duration the session was handed to
\* save_recording and the step ended Idle with no accumulated frames and an
\* empty pre-roll buffer; otherwise the state is still Recording and nothing
\* was finalized.
C1_TimeoutFinalizesToIdle ==
    (last.op = "frame" /\ last.was_recording) =>
        IF clock - last_speech_time > SILENCE_DURATION
        THEN /\ last.called
             /\ ~is_recording
             /\ decoded_pcm = <<>>
             /\ pre_buffer = <<>>
        ELSE /\ is_recording
             /\ ~last.called

\* C2 (as claimed): on speech onset the new session's frames are the frames
\* the pre-roll buffer held before the frame arrived followed by the frame
\* itself, also when the buffer held 10 frames, and the buffer is empty after.
C2_OnsetKeepsWholePreRoll ==
    [][(FrameStep /\ ~is_recording /\ is_recording') =>
          /\ decoded_pcm' = Append(pre_buffer, NewFrame)
          /\ pre_buffer' = <<>>]_vars

\* C3: while Idle a decoded frame starts a session, with start_time =
\* last_speech_time = now, if and only if its loudness is strictly greater
\* than the threshold; a frame at or below the threshold leaves the state
\* Idle, creates no session, leaves last_speech_time alone and is pushed into
\* the pre-roll buffer.
C3_OnsetIffAboveThreshold ==
    [][(FrameStep /\ ~is_recording) =>
          IF last'.level > SILENCE_THRESHOLD
          THEN /\ is_recording'
               /\ recording_start_time' = clock
               /\ last_speech_time' = clock
               /\ onset'.id = NewFrame.id
               /\ decoded_pcm' # <<>>
          ELSE /\ ~is_recording'
               /\ decoded_pcm' = decoded_pcm
               /\ onset' = onset
               /\ recording_start_time' = recording_start_time
               /\ last_speech_time' = last_speech_time
               /\ pre_buffer' # <<>>
               /\ pre_buffer'[Len(pre_buffer')] = NewFrame]_vars

\* C3 witness: a frame exactly at the threshold was processed while Idle and
\* went to the pre-roll buffer.
C3_Witness ==
    /\ last.op = "frame"
    /\ ~last.was_recording
    /\ last.level = SILENCE_THRESHOLD
    /\ ~is_recording
    /\ pre_buffer # <<>>
    /\ pre_buffer[Len(pre_buffer)] = stream[Len(stream)]

\* C4: as long as no decoded frame was louder than the threshold the
\* segmenter is Idle, no session was started or finalized and no file was
\* written.
C4_QuietStreamStaysIdle ==
    ~heard_speech =>
        /\ ~is_recording
        /\ decoded_pcm = <<>>
        /\ onset.id = 0
        /\ ~last.called
        /\ files = <<>>
        /\ recording_count = 0

\* C4 witness: more quiet frames than the pre-roll holds, and no loud one.
C4_Witness ==
    /\ ~heard_speech
    /\ last.op = "frame"
    /\ Len(stream) > PRE_BUFFER_MAXLEN + 1

\* C5: the pre-roll buffer never holds more than 10 frames, and it holds the
\* most recent frames pushed since it was last emptied, in arrival order.
C5_PreRollIsLastTen ==
    /\ Len(pre_buffer) <= PRE_BUFFER_MAXLEN
    /\ pre_buffer = LastN(pushed, PRE_BUFFER_MAXLEN)

\* C5 witness: a push onto the full buffer evicted the oldest frame.
C5_Witness ==
    /\ Len(pushed) > PRE_BUFFER_MAXLEN
    /\ Len(pre_buffer) = PRE_BUFFER_MAXLEN
    /\ pre_buffer[1] = pushed[Len(pushed) - PRE_BUFFER_MAXLEN + 1]
    /\ pre_buffer[1] # pushed[1]

\* C6: the frames handed to save_recording are the pre-roll frames taken at
\* onset followed by every frame decoded from the onset frame through the
\* latest one, in arrival order: a contiguous run of the decoded stream that
\* ends with the newest frame.
C6_HandedIsContiguousRun ==
    last.called =>
        LET h == last.handed IN
        /\ h = onset.pre \o SubSeq(stream, onset.id, Len(stream))
        /\ Len(onset.pre) <= PRE_BUFFER_MAXLEN
        /\ \A i \in 1..Len(h) : h[i] = stream[h[1].id + i - 1]
        /\ h[Len(h)] = stream[Len(stream)]

\* C6 witness: a silence timeout, detected on a quiet frame, handed over a
\* session that began with pre-roll and went on past its onset frame.
C6_Witness ==
    /\ last.called
    /\ last.op = "frame"
    /\ last.level <= SILENCE_THRESHOLD
    /\ onset.pre # <<>>
    /\ Len(last.handed) >= Len(onset.pre) + 3

\* C7: a frame louder than the threshold processed while Recording never
\* finalizes: last_speech_time becomes now before the silence check, the
\* frame is appended and the state stays Recording.
C7_SpeechFrameNeverFinalizes ==
    [][(FrameStep /\ is_recording /\ last'.level > SILENCE_THRESHOLD) =>
          /\ is_recording'
          /\ ~last'.called
          /\ files' = files
          /\ recording_count' = recording_count
          /\ last_speech_time' = clock
          /\ decoded_pcm' = Append(decoded_pcm, NewFrame)]_vars

\* C7 witness: the second frame of a session is loud and arrives more than
\* silence_duration after the onset frame, the only speech before it.
C7_Witness ==
    /\ last.op = "frame"
    /\ last.was_recording
    /\ last.level > SILENCE_THRESHOLD
    /\ is_recording
    /\ onset.pre = <<>>
    /\ Len(decoded_pcm) = 2
    /\ clock - recording_start_time > SILENCE_DURATION

\* C8 (as claimed): a shutdown while Recording finalizes the session and
\* leaves the segmenter Idle with no accumulated frames and an empty pre-roll
\* buffer; a shutdown while Idle finalizes nothing.
C8_FlushLeavesIdle ==
    last.op = "flush" =>
        IF last.was_recording
        THEN /\ last.called
             /\ ~is_recording
             /\ decoded_pcm = <<>>
             /\ pre_buffer = <<>>
        ELSE /\ ~last.called
             /\ last.outcome = "none"

\* C9: a flush while Recording of accumulated frames lasting at least
\* min_duration calls the save procedure once on exactly those frames, and the
\* file it writes (frames, duration, size) is the file a silence-timeout
\* finalize writes for the same frames; the write is the only thing that can
\* keep the file from appearing.
C9_FlushSavesLikeTimeout ==
    [][LET file(frames) == [frames  |-> frames,
                            samples |-> Samples(frames),
                            rate    |-> SAMPLE_RATE,
                            size    |-> WAV_HEADER_BYTES + TotalBytes(frames)]
           saves(frames) ==
               /\ last'.called
               /\ last'.handed = frames
               /\ last'.outcome \in {"saved", "raised"}
               /\ files' = IF last'.outcome = "saved"
                           THEN Append(files, file(frames))
                           ELSE files
       IN
       /\ (pc = "listening" /\ pc' = "ended" /\ is_recording
              /\ Samples(decoded_pcm) >= MinSamples)
             => saves(decoded_pcm)
       /\ (FrameStep /\ last'.called /\ Samples(last'.handed) >= MinSamples)
             => saves(Append(decoded_pcm, NewFrame))]_vars

\* C9 witness: a flush while Recording wrote a file.
C9_Witness ==
    /\ last.op = "flush"
    /\ last.was_recording
    /\ last.outcome = "saved"
    /\ files # <<>>
    /\ files[Len(files)].frames = decoded_pcm

\* C10 (as claimed): when a session is finalized a file is written if and
\* only if its sample count over the sample rate is at least the minimum
\* duration; a shorter session is discarded and the segmenter returns to Idle.
C10_KeepIffLongEnough ==
    last.called =>
        /\ (last.outcome = "saved") <=> (Samples(last.handed) >= MinSamples)
        /\ Samples(last.handed) < MinSamples =>
              /\ last.outcome = "discarded"
              /\ ~is_recording

\* the program's own fields and what it wrote
RECURSIVE SampleCount(_)
SampleCount(frames) ==
    IF frames = <<>> THEN 0
    ELSE (Head(frames).len \div 2) + SampleCount(Tail(frames))

\* C11 (as claimed): a session is handed to save_recording at most once, and
\* once it has been, a further frame at or below the threshold neither saves
\* nor discards again nor starts a session.
C11_FinalizedAtMostOnce ==
    [][/\ tries'.calls <= 1
       /\ (FrameStep /\ tries.calls >= 1 /\ last'.level <= SILENCE_THRESHOLD)
             => (~last'.called /\ ~is_recording' /\ onset' = onset)]_vars

\* C12 (as claimed): when the write of a finalized session fails, nothing
\* escapes handle_audio and the segmenter is back in Idle, the session gone.
C12_WriteFailureReturnsToIdle ==
    (last.op = "frame" /\ last.outcome = "raised") =>
        /\ ~is_recording
        /\ decoded_pcm = <<>>

\* C13 (as claimed): no packet makes a write attempt on a session one of whose
\* writes already failed.
C13_FailedWriteNotRetried ==
    (last.op = "frame" /\ last.called /\ last.outcome \in {"saved", "raised"}) =>
        tries.failed <= (IF last.outcome = "raised" THEN 1 ELSE 0)

\* C14 (as claimed): a packet of at most 3 bytes changes no field of the
\* recorder, counters included, does not reach the codec and finalizes nothing.
C14_ShortPacketChangesNothing ==
    [][last'.op = "short" =>
          /\ UNCHANGED <<is_recording, decoded_pcm, recording_count,
                         last_speech_time, recording_start_time, pre_buffer,
                         total_packets, files, paths>>
          /\ ~last'.codec
          /\ ~last'.called]_vars

\* C14 (amended): a packet of at most 3 bytes is counted in total_packets and
\* changes no other field of the recorder; it does not reach the codec and
\* finalizes nothing.
C14_ShortPacketOnlyCounted ==
    [][last'.op = "short" =>
          /\ UNCHANGED <<is_recording, decoded_pcm, recording_count,
                         last_speech_time, recording_start_time, pre_buffer,
                         files, paths>>
          /\ total_packets' = total_packets + 1
          /\ ~last'.codec
          /\ ~last'.called]_vars

\* C14 witness: a short packet arrived while Recording with the silence
\* deadline already passed.
C14_Witness ==
    /\ last.op = "short"
    /\ is_recording
    /\ decoded_pcm # <<>>
    /\ clock - last_speech_time > SILENCE_DURATION
    /\ total_packets = Len(stream) + 1

\* C15: a packet the codec cannot decode leaves is_recording, both timers, the
\* pre-roll buffer and the accumulated frames as they were; no silence check
\* is made and nothing is finalized or written.
C15_UndecodableDropped ==
    [][last'.op = "undecodable" =>
          /\ UNCHANGED <<is_recording, last_speech_time, recording_start_time,
                         pre_buffer, decoded_pcm, recording_count, files, paths>>
          /\ ~last'.called
          /\ last'.outcome = "none"]_vars

\* C15 witness: an undecodable packet arrived while Recording with the silence
\* deadline already passed, and the session is still there.
C15_Witness ==
    /\ last.op = "undecodable"
    /\ last.codec
    /\ is_recording
    /\ Len(decoded_pcm) >= 2
    /\ clock - last_speech_time > SILENCE_DURATION

\* C16 (as claimed): a manual recorder given a packet of at most 3 bytes, one
\* of exactly 3 bytes included, does not call the decoder (so never with an
\* empty payload) and appends no PCM.
C16_HeaderOnlyPacketIgnored ==
    (mlast.op \in {"enhanced", "simple"} /\ mlast.len <= HEADER_BYTES) =>
        /\ ~mlast.codec
        /\ ~mlast.appended

\* C17 (as claimed): after any call of save_recording, by timeout or by flush
\* and whatever came back, the segmenter is Idle and holds no frame: the
\* accumulated frames and the pre-roll buffer are both empty.
C17_NothingHeldAfterFinalize ==
    last.called =>
        /\ ~is_recording
        /\ decoded_pcm = <<>>
        /\ pre_buffer = <<>>

\* C18 (as claimed): no two files kept in one run are written to the same
\* path, whatever the wall clock read at the two saves.
C18_PathsNeverRepeat ==
    \A i, j \in 1..Len(paths) : i # j => paths[i] # paths[j]

\* C19: every file written holds exactly the frames of its session in order,
\* declares the sample rate, lasts (total sample count) / sample_rate and is
\* 44 + 2 x (total sample count) bytes long.
C19_FileMatchesSession ==
    /\ \A i \in 1..Len(files) :
          /\ files[i].samples = SampleCount(files[i].frames)
          /\ files[i].rate = SAMPLE_RATE
          /\ files[i].size = WAV_HEADER_BYTES + 2 * SampleCount(files[i].frames)
          /\ files[i].samples >= MinSamples
    /\ last.outcome = "saved" =>
          /\ files # <<>>
          /\ files[Len(files)].frames = last.handed

\* C19 witness: a silence timeout kept a session of 17 full frames.
C19_Witness ==
    /\ last.op = "frame"
    /\ last.outcome = "saved"
    /\ Len(last.handed) = 17
    /\ files[Len(files)].size = WAV_HEADER_BYTES + 2 * 17 * MAX_FRAME_SAMPLES

\* C20: in every Idle state the accumulated-frame list is empty.
C20_IdleHoldsNoSession ==
    ~is_recording => decoded_pcm = <<>>

\* C20 witness: Idle again after a silence timeout ended a session.
C20_Witness ==
    /\ ~is_recording
    /\ last.op = "frame"
    /\ last.called
    /\ Len(last.handed) >= 2
    /\ decoded_pcm = <<>>

\* C27: while Recording the session holds at least one frame and the pre-roll
\* buffer is empty; save_recording is never handed a session without frames,
\* and handed one it returns at once: no file, no count, no division.
C27_RecordingHoldsFrames ==
    /\ is_recording => (decoded_pcm # <<>> /\ pre_buffer = <<>>)
    /\ last.called => last.handed # <<>>
    /\ \A io_ok \in BOOLEAN :
          SaveRecording(<<>>, recording_count, files, io_ok) =
              [outcome |-> "empty", count |-> recording_count, files |-> files]

\* C27 witness: a session just started on a full pre-roll buffer.
C27_Witness ==
    /\ is_recording
    /\ last.op = "frame"
    /\ ~last.was_recording
    /\ Len(decoded_pcm) = PRE_BUFFER_MAXLEN
    /\ pre_buffer = <<>>

\* C28: a step that processes no decoded frame (the clock advancing, a packet
\* too short or undecodable, the shutdown) leaves is_recording, the session's
\* frames and last_speech_time as they were, and only the shutdown flush among
\* them calls save_recording.
C28_TimeoutOnlyOnFrame ==
    [][~FrameStep =>
          /\ UNCHANGED <<is_recording, decoded_pcm, last_speech_time>>
          /\ last'.op # "flush" =>
                (~last'.called /\ UNCHANGED <<files, paths, recording_count>>)]_vars

\* C28 witness: still Recording, frames intact, with the silence deadline passed
\* while the clock advanced and a packet was dropped.
C28_Witness ==
    /\ is_recording
    /\ last.op = "tick"
    /\ clock - last_speech_time > SILENCE_DURATION
    /\ total_packets > Len(stream)
    /\ decoded_pcm # <<>>

\* C29 (as claimed): recording_count is the number of files written.
C29_CountEqualsFilesWritten ==
    recording_count = Len(files)

\* C25: a notification delivered to EnhancedRecorder while it is not RECORDING
\* changes none of its fields, and PCM is appended only while RECORDING.
C25_AudioOnlyWhileRecording ==
    [][mlast'.op = "enhanced" =>
          /\ enh.state # "RECORDING" => enh' = enh
          /\ enh'.decoded_pcm # enh.decoded_pcm => enh.state = "RECORDING"
          /\ mlast'.appended => enh.state = "RECORDING"]_vars

\* C25 witness: a packet with audio arrived while IDLE, after a recording that
\* had captured audio, and was not counted.
C25_Witness ==
    /\ mlast.op = "enhanced"
    /\ mlast.len > HEADER_BYTES
    /\ enh.state = "IDLE"
    /\ enh.decoded_pcm # <<>>
    /\ enh.notification_count = 1

\* C26 (as claimed): the quit handler, run while RECORDING, stops the recording
\* before it sets quit_event, and once quit_event is set the recorder is never
\* RECORDING again.
C26_NoRecordingAfterQuit ==
    [][/\ (mlast'.op = "quit" /\ ~quit_event /\ enh.state = "RECORDING") =>
              (enh'.state = "IDLE" /\ quit_event')
       /\ quit_event' => enh'.state # "RECORDING"]_vars

\* C30: start_recording while RECORDING and stop_recording while not RECORDING
\* change no field of the recorder and write no file.
C30_RepeatedCommandIsNoOp ==
    [][/\ (mlast'.op = "start" /\ enh.state = "RECORDING") => enh' = enh
       /\ (mlast'.op = "stop" /\ enh.state # "RECORDING") => enh' = enh]_vars

\* C30 witness: a second start found the recorder RECORDING with audio already
\* captured, and the audio is still there.
C30_Witness ==
    /\ mlast.op = "start"
    /\ enh.state = "RECORDING"
    /\ enh.decoded_pcm # <<>>
    /\ enh.notification_count >= 1

\* every section of DEFAULTS is a mapping of the configuration, with every
\* default key
ValidConfig(config) ==
    /\ IsDict(config)
    /\ \A section \in Keys(DEFAULTS) :
          /\ section \in Keys(config)
          /\ IsDict(config.v[section])
          /\ Keys(DEFAULTS.v[section]) \subseteq Keys(config.v[section])

\* config.yaml gives a value for section/key
Defines(file, section, key) ==
    /\ IsDict(file)
    /\ section \in Keys(file)
    /\ IsDict(file.v[section])
    /\ key \in Keys(file.v[section])

\* C21 (as claimed): no call of load_config or get raises, and a loaded
\* configuration has every section of DEFAULTS as a mapping with every default
\* key, whatever config.yaml is.
C21_LoadNeverRaises ==
    /\ ~cfg_last.raised
    /\ config_cache.kind # "none" => ValidConfig(config_cache)

\* C22 (as claimed): get on a section and key of DEFAULTS returns config.yaml's
\* value when config.yaml defines that key and the default otherwise, and the
\* loaded configuration has no section or key that DEFAULTS has not.
C22_FileOverridesDefaults ==
    /\ (cfg_last.op = "get" /\ cfg_last.section \in Keys(DEFAULTS)
           /\ cfg_last.key \in Keys(DEFAULTS.v[cfg_last.section])) =>
          /\ ~cfg_last.raised
          /\ cfg_last.value =
                IF Defines(config_file, cfg_last.section, cfg_last.key)
                THEN config_file.v[cfg_last.section].v[cfg_last.key]
                ELSE DEFAULTS.v[cfg_last.section].v[cfg_last.key]
    /\ config_cache.kind # "none" =>
          /\ Keys(config_cache) \subseteq Keys(DEFAULTS)
          /\ \A section \in Keys(config_cache) :
                IsDict(config_cache.v[section]) =>
                    Keys(config_cache.v[section]) \subseteq Keys(DEFAULTS.v[section])

\* C23: without force a WAV file that has an .md file is not transcribed
\* again: transcribe_file succeeds without loading the model or opening the
\* .md, batch_transcribe counts the file as skipped, and a second run without
\* force on the directory as the first run left it attempts only files the
\* first run counted as failed.
C23_TranscribedOnce ==
    /\ (tr_last.op = "file" /\ tr_last.had_md) =>
          (tr_last.success /\ ~tr_last.loaded /\ ~tr_last.wrote)
    /\ (last_run.ran /\ ~last_run.force) =>
          \A w \in last_run.wavs :
              last_run.before[w] # "none" =>
                  /\ w \notin last_run.attempted
                  /\ w \notin last_run.written
                  /\ last_run.after[w] = last_run.before[w]
                  /\ last_run.counted[w] = "skipped"
    /\ (prev_run.ran /\ last_run.ran /\ ~last_run.force
           /\ last_run.wavs = prev_run.wavs
           /\ last_run.before = prev_run.after) =>
          last_run.attempted \subseteq
              {w \in prev_run.wavs : prev_run.counted[w] = "failed"}

\* C23 witness: a second run without force, on the directory as the first run
\* left it, skipped the file the first run transcribed and attempted the one
\* it failed on.
C23_Witness ==
    /\ prev_run.ran
    /\ last_run.ran
    /\ ~last_run.force
    /\ last_run.wavs = WavNames
    /\ last_run.wavs = prev_run.wavs
    /\ last_run.before = prev_run.after
    /\ prev_run.stats.succeeded = 1
    /\ prev_run.stats.failed = 1
    /\ last_run.stats.skipped = 1
    /\ Cardinality(last_run.attempted) = 1

\* C24 (as claimed): batch_transcribe.py's main, on a directory that exists
\* and holds a WAV file, runs the batch and exits with 0 when no file failed
\* and with 1 otherwise.
C24_MainExitCode ==
    (tr_last.op = "main" /\ tr_last.dir_existed /\ tr_last.wavs # {}) =>
        /\ tr_last.ran
        /\ tr_last.exit = IF tr_last.failed = 0 THEN 0 ELSE 1

\* C31: a stop_recording called while RECORDING, from the stop command or
\* from quit, returns with the state IDLE whether the recording was saved, no
\* audio had been captured or the write raised; and STOPPED is never the
\* state a command or a notification leaves behind.
C31_StopAlwaysReturnsToIdle ==
    [][/\ (mlast'.op \in {"stop", "quit"} /\ enh.state = "RECORDING") =>
             enh'.state = "IDLE"
       /\ enh'.state \in {"IDLE", "RECORDING"}]_vars

\* C31 witness: a stop_recording whose write raised has returned, and the
\* recorder is IDLE with the recording numbered but no file listed.
C31_Witness ==
    /\ mlast.op = "stop"
    /\ mlast.outcome = "raised"
    /\ enh.state = "IDLE"
    /\ enh.recording_number = 1
    /\ enh.saved_files = <<>>

\* C32: a stop_recording that saves appends one file, and the file holds
\* exactly the chunks decoded since the start_recording that began the
\* recording, in arrival order; a start_recording that takes effect leaves the
\* buffer empty; and saved_files is never longer than recording_number.
C32_FileHoldsItsRecording ==
    [][/\ (mlast'.op \in {"stop", "quit"} /\ mlast'.outcome = "saved") =>
             /\ Len(enh'.saved_files) = Len(enh.saved_files) + 1
             /\ SubSeq(enh'.saved_files, 1, Len(enh.saved_files)) =
                   enh.saved_files
             /\ enh'.saved_files[Len(enh'.saved_files)].frames = captured
             /\ captured # <<>>
       /\ (mlast'.op = "start" /\ enh.state # "RECORDING") =>
             enh'.decoded_pcm = <<>>
       /\ Len(enh'.saved_files) <= enh'.recording_number]_vars

\* C32 witness: two recordings were saved, the first of two chunks and the
\* second of one, and the second file holds that one chunk only.
C32_Witness ==
    /\ mlast.op = "stop"
    /\ mlast.outcome = "saved"
    /\ Len(enh.saved_files) = 2
    /\ Len(enh.saved_files[1].frames) = 2
    /\ enh.saved_files[2].frames = captured
    /\ Len(captured) = 1

====
